---- MODULE Spec2Model ----
(***************************************************************************)
(* A model of ttyconv: the select()-based relay of libttyconv/ttyconv.py   *)
(* (class TTYConv) and the asyncio relay of ttyconv2.py (class TTYConv2).  *)
(*                                                                         *)
(* Byte strings are sequences of byte values (0..255), decoded text is a   *)
(* sequence of code points.  ttyconv.py is read with str and '' being the  *)
(* same string type, so `data != ''` is "data is not empty".               *)
(*                                                                         *)
(* The specifications share the variables:                                 *)
(*   SpecCodec  the transcoder on one byte string, whole and in two chunks *)
(*   SpecRound  encode, then decode, of one text                           *)
(*   SpecTerm   TTYConv.terminate, close and __del__ against a child       *)
(*   SpecRelay  TTYConv.interact relaying between terminal and PTY         *)
(*   SpecConfig TTYConv.__init__ from the command line to interact()       *)
(*   SpecFlow   the relay against PTY queues that fill up                  *)
(*   SpecLocale the locale variables handed to the child by spawn()        *)
(*   SpecSignal a session without data: signals and window changes         *)
(*              (SpecSignalFair: the program's steps are taken)            *)
(*   SpecRace   isalive() in two steps with signal_handler in between      *)
(*   SpecWinch  SIGWINCH outside interact(): before spawn(), in close()    *)
(*   SpecAsync  TTYConv2.run: the event loop, its tasks and callbacks      *)
(*              (SpecAsyncFair: the loop runs what is ready)               *)
(***************************************************************************)
EXTENDS Integers, Sequences, FiniteSets, TLC

(***************************************************************************)
(* Bounds of the model.                                                    *)
(***************************************************************************)
\* Longest byte string drawn as an input of the transcoder.
MaxLen == 3

(***************************************************************************)
(* Character encodings.  Three codecs of Python's codecs module are        *)
(* modelled: a multi-byte one (utf-8) and two single-byte ones.            *)
(***************************************************************************)
Encodings == {"UTF-8", "ISO-8859-1", "ASCII"}

\* U+FFFD, what errors='replace' puts in decoded text, and '?', what
\* errors='replace' puts in encoded bytes.
ReplacementChar == 65533
QuestionMark == 63

\* The bytes inputs are built from: 'a', the two bytes of UTF-8 "é", Latin-1
\* "é", and a byte that is valid nowhere in UTF-8.
ByteAlphabet == {97, 195, 169, 233, 255}

\* UTF-8 of "café".
Cafe == <<99, 97, 102, 195, 169>>

RECURSIVE SeqsUpTo(_, _)
SeqsUpTo(S, n) ==
    IF n = 0 THEN {<<>>}
    ELSE LET shorter == SeqsUpTo(S, n - 1)
         IN  shorter \cup {Append(s, x) : s \in shorter, x \in S}

Drop(s, n) == SubSeq(s, n + 1, Len(s))
Take(s, n) == SubSeq(s, 1, n)

IsPrefix(p, s) == Len(p) <= Len(s) /\ Take(s, Len(p)) = p

\* Length of the UTF-8 sequence a byte starts; 0 for a byte that starts none
\* (a continuation byte, 0xC0, 0xC1, 0xF5..0xFF).  Four-byte leads
\* (0xF0..0xF4) are outside the modelled alphabet.
Utf8Need(b) ==
    IF b < 128 THEN 1
    ELSE IF b >= 194 /\ b <= 223 THEN 2
    ELSE IF b >= 224 /\ b <= 239 THEN 3
    ELSE 0

\* Whether b may be the k-th byte (k >= 2) after the lead byte.
Utf8ContOK(lead, k, b) ==
    IF k = 2 /\ lead = 224 THEN b >= 160 /\ b <= 191
    ELSE IF k = 2 /\ lead = 237 THEN b >= 128 /\ b <= 159
    ELSE b >= 128 /\ b <= 191

\* How many of the bytes after the lead are acceptable continuations.
RECURSIVE Utf8Conts(_, _, _)
Utf8Conts(d, need, k) ==
    IF k > need \/ k > Len(d) THEN 0
    ELSE IF Utf8ContOK(d[1], k, d[k]) THEN 1 + Utf8Conts(d, need, k + 1)
    ELSE 0

Utf8CodePoint(d, need) ==
    IF need = 2 THEN (d[1] - 192) * 64 + (d[2] - 128)
    ELSE (d[1] - 224) * 4096 + (d[2] - 128) * 64 + (d[3] - 128)

PushText(c, r) == [r EXCEPT !.text = <<c>> \o @]
PushError(r) == [r EXCEPT !.text = <<ReplacementChar>> \o @, !.nerr = @ + 1]

\* codecs.utf_8_decode(d, 'replace', final): the decoded text, the number of
\* replaced errors and the undecoded tail (an incomplete sequence at the end,
\* kept only when final is false).
RECURSIVE Utf8Decode(_, _)
Utf8Decode(d, final) ==
    IF d = <<>> THEN [text |-> <<>>, rest |-> <<>>, nerr |-> 0]
    ELSE LET need == Utf8Need(d[1])
             got  == Utf8Conts(d, need, 2)
         IN  IF need = 0 THEN PushError(Utf8Decode(Tail(d), final))
             ELSE IF need = 1 THEN PushText(d[1], Utf8Decode(Tail(d), final))
             ELSE IF got = need - 1
                  THEN PushText(Utf8CodePoint(d, need), Utf8Decode(Drop(d, need), final))
             ELSE IF got + 1 = Len(d)
                  THEN IF final THEN [text |-> <<ReplacementChar>>, rest |-> <<>>, nerr |-> 1]
                       ELSE [text |-> <<>>, rest |-> d, nerr |-> 0]
             \* CPython keeps 0xED and a surrogate's second byte at the end of
             \* a non-final input, and rejects the pair once more input follows.
             ELSE IF ~final /\ d[1] = 237 /\ Len(d) = 2 /\ d[2] >= 160 /\ d[2] <= 191
                  THEN [text |-> <<>>, rest |-> d, nerr |-> 0]
             ELSE PushError(Utf8Decode(Drop(d, got + 1), final))

\* The single-byte decoders: every byte is a character of ISO-8859-1, the
\* bytes below 128 are the characters of ASCII.
RECURSIVE CharmapDecode(_, _)
CharmapDecode(d, limit) ==
    IF d = <<>> THEN [text |-> <<>>, rest |-> <<>>, nerr |-> 0]
    ELSE IF d[1] < limit THEN PushText(d[1], CharmapDecode(Tail(d), limit))
    ELSE PushError(CharmapDecode(Tail(d), limit))

CodecDecode(enc, d, final) ==
    IF enc = "UTF-8" THEN Utf8Decode(d, final)
    ELSE IF enc = "ISO-8859-1" THEN CharmapDecode(d, 256)
    ELSE CharmapDecode(d, 128)

\* The bytes of one character with errors='replace'.
Utf8EncodeChar(c) ==
    IF c < 128 THEN <<c>>
    ELSE IF c < 2048 THEN <<192 + (c \div 64), 128 + (c % 64)>>
    ELSE IF c >= 55296 /\ c <= 57343 THEN <<QuestionMark>>
    ELSE <<224 + (c \div 4096), 128 + ((c \div 64) % 64), 128 + (c % 64)>>

CodecEncodeChar(enc, c) ==
    IF enc = "UTF-8" THEN Utf8EncodeChar(c)
    ELSE IF enc = "ISO-8859-1" THEN (IF c < 256 THEN <<c>> ELSE <<QuestionMark>>)
    ELSE (IF c < 128 THEN <<c>> ELSE <<QuestionMark>>)

RECURSIVE CodecEncode(_, _)
CodecEncode(enc, text) ==
    IF text = <<>> THEN <<>>
    ELSE CodecEncodeChar(enc, Head(text)) \o CodecEncode(enc, Tail(text))

\* The characters an encoding has.
Representable(enc, c) ==
    IF enc = "UTF-8" THEN c < 55296 \/ c > 57343
    ELSE IF enc = "ISO-8859-1" THEN c < 256
    ELSE c < 128

\* Decoding and encoding with errors='ignore': what cannot be converted is
\* left out.
lenientDecodeIgnore(string, encoding) ==
    SelectSeq(CodecDecode(encoding, string, TRUE).text,
              LAMBDA c : c /= ReplacementChar)

\* Decoding that takes every byte string for ISO-8859-1.
lenientDecodeLatin1(string, encoding) == CharmapDecode(string, 256).text

lenientEncodeIgnore(string, encoding) ==
    CodecEncode(encoding, SelectSeq(string, LAMBDA c : Representable(encoding, c)))

\* TTYConv.lenientDecode: codecs.decode(string, encoding, errors='replace').
lenientDecode(string, encoding) == CodecDecode(encoding, string, TRUE).text

\* TTYConv.lenientEncode: codecs.encode(string, encoding, errors='replace').
lenientEncode(string, encoding) == CodecEncode(encoding, string)

\* remoteToLocal with the two encodings taken for each other.
remoteToLocalSwapped(s, remote, local) ==
    lenientEncode(lenientDecode(s, local), remote)

\* TTYConv.remoteToLocal and TTYConv.localToRemote: decode, then encode.
remoteToLocal(s, remote, local) == lenientEncode(lenientDecode(s, remote), local)

localToRemote(s, local, remote) == lenientEncode(lenientDecode(s, local), remote)

\* TTYConv2.handle_output_from_system after its read: the incremental decoder
\* of the remote encoding (its buffer is `carry`), then the local codec's
\* encode when at least one character came out.
handle_output_transcode(data, carry, remote, local) ==
    LET r == CodecDecode(remote, carry \o data, FALSE)
    IN  [text  |-> r.text,
         carry |-> r.rest,
         out   |-> IF r.text /= <<>> THEN CodecEncode(local, r.text) ELSE <<>>]

\* TTYConv2.handle_fd_read after its read: the local codec's stateless decode,
\* then the incremental encoder of the remote encoding.
handle_fd_transcode(data, carry, local, remote) ==
    LET r == CodecDecode(local, data, TRUE)
    IN  [text  |-> r.text,
         carry |-> carry,
         out   |-> IF Len(data) > 0 THEN CodecEncode(remote, r.text) ELSE <<>>]

(***************************************************************************)
(* State.                                                                  *)
(***************************************************************************)
VARIABLES
    \* The transcoder on its own: one byte string relayed as one chunk and,
    \* again, as two chunks.
    c_pc,       \* "start", "whole", "first", "done"
    c_path,     \* the handler that relays it
    c_src,      \* encoding of the source
    c_dst,      \* encoding of the destination
    c_in,       \* the bytes read from the source
    c_cut,      \* where the second relay splits them
    c_one,      \* [text, out, carry] of the relay as one chunk
    c_two       \* [text, out, carry] of the relay as two chunks

NoRelay == [text |-> <<>>, out |-> <<>>, carry |-> <<>>]

cvars == <<c_pc, c_path, c_src, c_dst, c_in, c_cut, c_one, c_two>>

VARIABLES
    \* A TTYConv object (ttyconv.py) and its child.
    phase,        \* "parsed", "exited", "constructed", "spawned", "failed" (spawn raised)
    initialised,  \* self.initialised
    terminated,   \* self.terminated
    status,       \* self.status: "None", or how the reaped child ended
    child_fd,     \* self.child_fd
    closed,       \* self.closed
    \* The kernel's side.
    child,        \* [st, how, pend]: the child process
    beh,          \* what the child does with each signal
    fd_open,      \* whether PtyFd is the open PTY master
    \* The flow of control through terminate(), close() and __del__().
    top,          \* the method the caller invoked, "idle" when none
    pc,           \* where that call stands
    force,        \* its force argument
    \* History.
    ev,           \* liveness checks and signals of terminate() in the latest call
    ret,          \* [op, force, raised, seen] of the latest finished call
    closeLog,     \* what each close() call so far raised
    nOsClose,     \* os.close(self.child_fd) calls so far
    calls         \* calls made by the caller so far

svars == <<phase, initialised, terminated, status, child_fd, closed>>
kvars == <<child, beh, fd_open>>
fvars == <<top, pc, force>>
hvars == <<ev, ret, closeLog, nOsClose, calls>>
pvars == <<svars, kvars, fvars, hvars>>

VARIABLES
    \* The terminal, the two byte streams and TTYConv.interact().
    tty_mode,     \* line discipline of the controlling terminal: "cooked", "raw"
    saved_mode,   \* the mode captured for the restore, "None" before
    opts,         \* [remote, local]: the two encodings
    ptyOut,       \* bytes the child wrote that the PTY master has not read
    stdinBuf,     \* bytes typed that standard input has not read
    made,         \* [out, in]: bytes each source has produced so far
    owed,         \* [out, in]: the transcoded chunks read, in read order
    delivered,    \* [out, in]: the bytes the destination accepted
    nread,        \* [out, in]: reads that returned data
    eofReads,     \* reads of the PTY master that returned nothing: 0, 1, or
                  \* 2 for "more than one"
    r_pc,         \* where interact() stands
    ready,        \* the descriptors select() returned
    wbuf,         \* `data` of TTYConv.write()
    outcome       \* how the program's main flow ended, "None" before

tvars == <<tty_mode, saved_mode>>
dvars == <<opts, ptyOut, stdinBuf, made, owed, delivered, nread, eofReads>>
ivars == <<r_pc, ready, wbuf, outcome>>
rvars == <<tvars, dvars, ivars>>

VARIABLES
    \* TTYConv2 and its event loop.
    a_pc,         \* "off", "init" (constructed), "running" (run_forever), "exited"
    done,         \* self.done
    tasks,        \* the tasks of the loop that have not run yet
    readers,      \* the descriptors with a reader callback
    pty_fd,       \* self.pty_fd, "unset" before session() sets it
    remote_decoder, \* the bytes self.remote_decoder holds back
    io_failed     \* a read or write of a reader callback has raised OSError

avars == <<a_pc, done, tasks, readers, pty_fd, remote_decoder, io_failed>>

VARIABLES
    \* A text encoded and decoded again in one encoding.
    rt_pc,        \* "off", "start", "encoded", "decoded"
    rt_enc,       \* the encoding
    rt_text,      \* the text
    rt_bytes,     \* lenientEncode of the text
    rt_back       \* lenientDecode of those bytes

xvars == <<rt_pc, rt_enc, rt_text, rt_bytes, rt_back>>

VARIABLES
    \* Signals that reached the program.
    sigLog        \* one record per signal: which, whether the child was
                  \* alive, whether a handler ran, whether it was forwarded
VARIABLES
    \* isalive() between its os.waitpid and its assignments.
    waited        \* the status os.waitpid returned, "None" outside that window

nvars == <<sigLog, waited>>

VARIABLES
    \* Terminal geometry.
    geomOK,       \* [query, write]: whether the geometry ioctls work here
    termWin,      \* the geometry of the controlling terminal
    ptyWin,       \* the geometry of the PTY, "None" before it is set
    winLog,       \* the geometry writes to the PTY, in order
    nWinch        \* window-change notifications so far

gvars == <<geomOK, termWin, ptyWin, winLog, nWinch>>

VARIABLES
    \* The command line and the standard streams.
    cfg,          \* [remote, local, stdin_tty, stdout_tty]
    pty_eof,      \* what a read of the PTY master does once the slave is
                  \* closed and drained: "EIO" (it fails) or "empty"
    py            \* the major version of the Python that runs ttyconv.py

ovars == <<cfg, pty_eof, py>>

VARIABLES
    \* The queues of the PTY.
    bounded,      \* whether the PTY's queues can fill up during the run
    ptyIn,        \* bytes written to the PTY master the child has not read
    child_io      \* "idle", or "writing": the child is blocked in a write

qvars == <<bounded, ptyIn, child_io>>

VARIABLES
    \* The environment of the child.
    l_pc,         \* "off", "fork" (the child before exec), "exec"
    nolocale,     \* self.options.nolocale
    environ,      \* os.environ: the value of each variable
    child_env     \* the environment the command is executed with

evars == <<l_pc, nolocale, environ, child_env>>

vars == <<cvars, pvars, rvars, avars, xvars, nvars, gvars, ovars, qvars, evars>>

\* What the steps of one part of the model leave alone.
outsideCodec == <<pvars, rvars, avars, xvars, nvars, gvars, ovars, qvars, evars>>
outsideSession == <<cvars, rvars, avars, xvars, nvars, gvars, ovars, qvars, evars>>
outsideRelay == <<cvars, fvars, hvars, avars, xvars, nvars, gvars, ovars, qvars, evars>>
outsideFlow == <<cvars, fvars, hvars, avars, xvars, nvars, gvars, ovars, evars>>
outsideAsync == <<cvars, svars, fvars, hvars, r_pc, ready, wbuf, beh, fd_open, xvars, nvars, gvars, ovars, qvars, evars>>
outsideRound == <<cvars, pvars, rvars, avars, nvars, gvars, ovars, qvars, evars>>

(***************************************************************************)
(* The child process and the kernel.                                       *)
(***************************************************************************)
\* What the child's program does on a signal, and whether the parent may
\* signal it at all (os.kill of a child that changed its user id fails with
\* EPERM).  A child that "ignores" SIGKILL is one SIGKILL does not end in the
\* time terminate() waits, or at all (uninterruptible sleep).
Behaviours == [hup : {"die", "ignore"}, int : {"die", "ignore"},
               term : {"die", "ignore"}, kill : {"die", "ignore"}, perm : BOOLEAN]

\* A child that dies of every fatal signal and that the parent may signal.
Mortal == [hup |-> "die", int |-> "die", term |-> "die", kill |-> "die",
           perm |-> TRUE]

\* st: "none" (not forked), "running", "stopped" (job control), "dying" (a
\* fatal signal is delivered, the process is not yet a zombie), "zombie"
\* (ended, not waited for), "reaped" (waited for by this program), "stolen"
\* (waited for by someone else).  how: how a zombie ended.  pend: a fatal
\* signal waits for the stopped child to continue.
NoChild == [st |-> "none", how |-> "None", pend |-> FALSE]
RunningChild == [st |-> "running", how |-> "None", pend |-> FALSE]

Fatal(b, sig) ==
    CASE sig = "HUP"  -> b.hup = "die"
      [] sig = "INT"  -> b.int = "die"
      [] sig \in {"TERM", "PIPE"} -> b.term = "die"
      [] sig = "KILL" -> b.kill = "die"
      [] OTHER        -> FALSE

\* The child after signal sig reaches it.
Deliver(c, b, sig) ==
    IF c.st = "running"
    THEN IF Fatal(b, sig) THEN [c EXCEPT !.st = "dying"] ELSE c
    ELSE IF c.st = "stopped"
    THEN IF sig = "KILL" THEN (IF Fatal(b, sig) THEN [c EXCEPT !.st = "dying"] ELSE c)
         ELSE IF sig = "CONT"
              THEN [c EXCEPT !.st = IF c.pend THEN "dying" ELSE "running", !.pend = FALSE]
         ELSE IF Fatal(b, sig) THEN [c EXCEPT !.pend = TRUE] ELSE c
    ELSE c

\* Closing the PTY master hangs up the slave: the kernel sends SIGHUP and
\* SIGCONT to the child.
Hangup(c, b) == Deliver(Deliver(c, b, "HUP"), b, "CONT")

\* os.waitpid(self.pid, os.WNOHANG).  Without WUNTRACED a stopped child is
\* not reported.
WaitPid(c) ==
    IF c.st \in {"running", "stopped", "dying"}
    THEN [err |-> "none", pid |-> 0, status |-> "None", child |-> c]
    ELSE IF c.st = "zombie"
    THEN [err |-> "none", pid |-> 1, status |-> c.how, child |-> [c EXCEPT !.st = "reaped"]]
    ELSE [err |-> "ECHILD", pid |-> 0, status |-> "None", child |-> c]

(***************************************************************************)
(* TTYConv: isalive, kill, terminate, close, __del__.                      *)
(***************************************************************************)
\* The descriptor pty.fork() returns.
PtyFd == 3

\* Calls the caller makes on one session.
MaxCalls == 2

\* The interpreters /usr/bin/python can be.
Pythons == {2, 3}

\* What `except OSError as e: if e[0] == errno.ECHILD: raise
\* ExceptionPexpect(...)` raises: Python 3 exceptions cannot be subscripted,
\* so there e[0] itself raises TypeError.
NoChildRaised == IF py = 2 THEN "ExceptionPexpect:nochild" ELSE "TypeError"

\* isalive() without its first test (`if self.terminated: return False`).
isaliveUnlatched(term, stat, c) ==
    LET same == [terminated |-> term, status |-> stat, child |-> c]
        w1 == WaitPid(c)
        w  == IF w1.err = "none" /\ w1.pid = 0 THEN WaitPid(w1.child) ELSE w1
    IN  IF w.err = "ECHILD" THEN [val |-> NoChildRaised] @@ same
        ELSE IF w.pid = 0 THEN [val |-> "True"] @@ same
        ELSE [val |-> "False", terminated |-> TRUE,
              status |-> w.status, child |-> w.child]

\* TTYConv.isalive(): val is "True", "False" or what it raises.
isalive(term, stat, c) ==
    LET same == [terminated |-> term, status |-> stat, child |-> c]
    IN  IF term THEN [val |-> "False"] @@ same
        ELSE LET w1 == WaitPid(c)
                 w  == IF w1.err = "none" /\ w1.pid = 0 THEN WaitPid(w1.child) ELSE w1
             IN  IF w.err = "ECHILD" THEN [val |-> NoChildRaised] @@ same
                 ELSE IF w.pid = 0 THEN [val |-> "True"] @@ same
                 ELSE IF w.status \in {"exited", "signaled"}
                      THEN [val |-> "False", terminated |-> TRUE,
                            status |-> w.status, child |-> w.child]
                 ELSE IF w.status = "stopped"
                      THEN [val |-> "SystemExit", terminated |-> term,
                            status |-> stat, child |-> w.child]
                 ELSE [val |-> "False", terminated |-> term,
                       status |-> stat, child |-> w.child]

\* How a liveness check shows in the history.
Seeing(val) ==
    IF val = "True" THEN "alive" ELSE IF val = "False" THEN "gone" ELSE "raise"

\* TTYConv.kill(sig): isalive(), then os.kill.  log is what the call adds to
\* the history.
kill(sig, term, stat, c, b) ==
    LET a == isalive(term, stat, c)
    IN  IF a.val = "True"
        THEN IF b.perm
             THEN [a EXCEPT !.val = "None", !.child = Deliver(a.child, b, sig)]
                  @@ [log |-> <<"alive", sig>>]
             ELSE [a EXCEPT !.val = "OSError"] @@ [log |-> <<"alive", "EPERM">>]
        ELSE IF a.val = "False" THEN [a EXCEPT !.val = "None"] @@ [log |-> <<"gone">>]
        ELSE a @@ [log |-> <<"raise">>]

\* TTYConv.terminate(): the places where it sends a signal and those where it
\* checks liveness (after its sleep), the signal sent at a place, the place
\* after it, and what follows a liveness check that found the child alive.
TermSendAt == {"t_hup", "t_cont", "t_int", "t_kill"}
TermCheckAt == {"t_entry", "t_hup_chk", "t_cont_chk", "t_int_chk", "t_kill_chk",
                "t_oserror"}

TermSignal(at) ==
    CASE at = "t_hup"  -> "HUP"
      [] at = "t_cont" -> "CONT"
      [] at = "t_int"  -> "INT"
      [] at = "t_kill" -> "KILL"

TermAfterSend(at) ==
    CASE at = "t_hup"  -> "t_hup_chk"
      [] at = "t_cont" -> "t_cont_chk"
      [] at = "t_int"  -> "t_int_chk"
      [] at = "t_kill" -> "t_kill_chk"

\* terminate() with the interrupt sent before the continue.
TermAfterAliveSwapped(at, f) ==
    CASE at = "t_entry"    -> "t_hup"
      [] at = "t_hup_chk"  -> "t_int"
      [] at = "t_int_chk"  -> "t_cont"
      [] at = "t_cont_chk" -> IF f THEN "t_kill" ELSE "return False"
      [] at = "t_kill_chk" -> "return False"
      [] at = "t_oserror"  -> "return False"

\* terminate() that goes on to the kill whatever force is.
TermAfterAliveForced(at, f) ==
    CASE at = "t_entry"    -> "t_hup"
      [] at = "t_hup_chk"  -> "t_cont"
      [] at = "t_cont_chk" -> "t_int"
      [] at = "t_int_chk"  -> "t_kill"
      [] at = "t_kill_chk" -> "return False"
      [] at = "t_oserror"  -> "return False"

TermAfterAlive(at, f) ==
    CASE at = "t_entry"    -> "t_hup"
      [] at = "t_hup_chk"  -> "t_cont"
      [] at = "t_cont_chk" -> "t_int"
      [] at = "t_int_chk"  -> IF f THEN "t_kill" ELSE "return False"
      [] at = "t_kill_chk" -> "return False"
      [] at = "t_oserror"  -> "return False"

\* What reaches the caller of a method that raised: an exception that leaves
\* __del__ is reported on stderr and dropped by the interpreter (__del__
\* itself catches AttributeError only).
Seen(method, raised) == IF method = "del" THEN "None" ELSE raised

NoRet == [op |-> "none", force |-> FALSE, val |-> "None", raised |-> "None",
          seen |-> "None"]

\* Call `method` ends, returning val or raising.  After __del__ the object
\* is gone.
Finish(method, f, val, raised) ==
    /\ ret' = [op |-> method, force |-> f, val |-> val, raised |-> raised,
               seen |-> Seen(method, raised)]
    /\ closeLog' = IF method \in {"close", "del"} THEN Append(closeLog, raised)
                   ELSE closeLog
    /\ top' = IF method = "del" THEN "gone" ELSE "idle"
    /\ pc' = "-"

\* The state a liveness check leaves.
Checked(a) ==
    /\ terminated' = a.terminated
    /\ status' = a.status
    /\ child' = a.child

\* The end of close(): self.child_fd = -1; self.closed = True.
CloseDone ==
    /\ child_fd' = -1
    /\ closed' = TRUE
    /\ Finish(top, force, "None", "None")

\* close() going on whatever terminate() returned.
TermReturnIgnored(val) ==
    IF top = "terminate"
    THEN Finish(top, force, val, "None") /\ UNCHANGED <<child_fd, closed>>
    ELSE CloseDone

\* terminate() returns val: to the caller, or into close(), which raises
\* when it is False.
TermReturn(val) ==
    IF top = "terminate"
    THEN Finish(top, force, val, "None") /\ UNCHANGED <<child_fd, closed>>
    ELSE IF val = "True" THEN CloseDone
    ELSE /\ Finish(top, force, "None", "ExceptionPexpect:close")
         /\ UNCHANGED <<child_fd, closed>>

\* The geometries a terminal takes.
Geometries == {[rows |-> 24, cols |-> 80], [rows |-> 40, cols |-> 120]}

\* TTYConv.getwinsize: the (rows, cols) pair of TIOCGWINSZ.
getwinsize(win) == <<win.rows, win.cols>>

\* The window size TTYConv.setwinsize(fd, r, c) packs for TIOCSWINSZ.
setwinsizeSwapped(r, c) == [rows |-> c, cols |-> r]

setwinsize(r, c) == [rows |-> r, cols |-> c]

\* One geometry write reaches the PTY.
WinWrite(rc) ==
    /\ ptyWin' = setwinsize(rc[1], rc[2])
    /\ winLog' = Append(winLog, setwinsize(rc[1], rc[2]))

\* __init__ from spawn() to self.initialised = True.  getwinsize(STDIN)
\* raises when the query fails; pty.fork() succeeds and the parent goes on,
\* or it raises; the child sets the PTY's geometry and ignores a failure of
\* that.
Spawn ==
    /\ phase = "constructed"
    /\ IF ~geomOK.query
       THEN /\ phase' = "failed"
            /\ outcome' = "GeometryError"
            /\ UNCHANGED <<child, fd_open, child_fd, terminated, closed, initialised,
                           ptyWin, winLog>>
       ELSE /\ UNCHANGED outcome
            /\ \E ok \in BOOLEAN :
                  IF ok
                  THEN /\ phase' = "spawned"
                       /\ child' = RunningChild
                       /\ fd_open' = TRUE
                       /\ child_fd' = PtyFd
                       /\ terminated' = FALSE
                       /\ closed' = FALSE
                       /\ initialised' = TRUE
                       /\ IF geomOK.write THEN WinWrite(getwinsize(termWin))
                          ELSE UNCHANGED <<ptyWin, winLog>>
                  ELSE /\ phase' = "failed"
                       /\ UNCHANGED <<child, fd_open, child_fd, terminated, closed,
                                      initialised, ptyWin, winLog>>
    /\ UNCHANGED <<status, beh, fvars, hvars>>
    /\ UNCHANGED <<cvars, tvars, dvars, r_pc, ready, wbuf, avars, xvars, nvars, ovars, qvars, evars>>
    /\ UNCHANGED <<geomOK, termWin, nWinch>>

\* The caller invokes terminate(f).
CallTerminate ==
    /\ top = "idle" /\ phase = "spawned" /\ calls < MaxCalls
    /\ \E f \in BOOLEAN : force' = f
    /\ top' = "terminate"
    /\ pc' = "t_entry"
    /\ ev' = <<>>
    /\ calls' = calls + 1
    /\ UNCHANGED <<svars, kvars, ret, closeLog, nOsClose>>
    /\ UNCHANGED outsideSession

\* The caller invokes close(f).
CallClose ==
    /\ top = "idle" /\ phase = "spawned" /\ calls < MaxCalls
    /\ \E f \in BOOLEAN : force' = f
    /\ top' = "close"
    /\ pc' = "c_enter"
    /\ ev' = <<>>
    /\ calls' = calls + 1
    /\ UNCHANGED <<svars, kvars, ret, closeLog, nOsClose>>
    /\ UNCHANGED outsideSession

\* The object is dropped: __del__ returns at once when the object is not
\* initialised or is closed, and calls close() otherwise.
CallDel ==
    /\ top = "idle"
    /\ IF initialised /\ ~closed
       THEN /\ top' = "del"
            /\ pc' = "c_enter"
            /\ force' = TRUE
            /\ UNCHANGED <<ret, closeLog>>
       ELSE /\ Finish("del", FALSE, "None", "None")
            /\ UNCHANGED force
    /\ ev' = <<>>
    /\ UNCHANGED <<svars, kvars, nOsClose, calls>>
    /\ UNCHANGED outsideSession

\* close() from its first line to its sleep: nothing when closed, else
\* os.close(self.child_fd), which raises on a descriptor that is not open.
CloseEnter ==
    /\ pc = "c_enter"
    /\ IF closed
       THEN /\ Finish(top, force, "None", "None")
            /\ UNCHANGED <<kvars, nOsClose>>
       ELSE /\ nOsClose' = nOsClose + 1
            /\ IF fd_open
               THEN /\ fd_open' = FALSE
                    /\ child' = Hangup(child, beh)
                    /\ pc' = "c_alive"
                    /\ UNCHANGED <<beh, top, ret, closeLog>>
               ELSE /\ Finish(top, force, "None", "OSError")
                    /\ UNCHANGED kvars
    /\ UNCHANGED <<svars, force, ev, calls>>
    /\ UNCHANGED outsideSession

\* close() after its sleep: isalive(), then terminate(force) or the end.
CloseAlive ==
    /\ pc = "c_alive"
    /\ LET a == isalive(terminated, status, child)
       IN  /\ Checked(a)
           /\ IF a.val = "True"
              THEN /\ pc' = "t_entry"
                   /\ UNCHANGED <<top, ret, closeLog, child_fd, closed>>
              ELSE IF a.val = "False"
              THEN CloseDone
              ELSE /\ Finish(top, force, "None", a.val)
                   /\ UNCHANGED <<child_fd, closed>>
    /\ UNCHANGED ev
    /\ UNCHANGED <<phase, initialised, beh, fd_open, force, nOsClose, calls>>
    /\ UNCHANGED outsideSession

\* terminate() at one of its liveness checks.
TermCheck ==
    /\ pc \in TermCheckAt
    /\ LET a == isalive(terminated, status, child)
           next == TermAfterAlive(pc, force)
       IN  /\ Checked(a)
           /\ ev' = Append(ev, Seeing(a.val))
           /\ IF a.val = "False" THEN TermReturn("True")
              ELSE IF a.val = "True"
              THEN IF next = "return False" THEN TermReturn("False")
                   ELSE /\ pc' = next
                        /\ UNCHANGED <<top, ret, closeLog, child_fd, closed>>
              ELSE /\ Finish(top, force, "None", a.val)
                   /\ UNCHANGED <<child_fd, closed>>
    /\ UNCHANGED <<phase, initialised, beh, fd_open, force, nOsClose, calls>>
    /\ UNCHANGED outsideSession

\* terminate() at one of its self.kill(sig) calls.  An OSError of os.kill is
\* caught by terminate(), anything else leaves it.
TermSend ==
    /\ pc \in TermSendAt
    /\ LET k == kill(TermSignal(pc), terminated, status, child, beh)
       IN  /\ Checked(k)
           /\ ev' = ev \o k.log
           /\ IF k.val = "None"
              THEN /\ pc' = TermAfterSend(pc)
                   /\ UNCHANGED <<top, ret, closeLog>>
              ELSE IF k.val = "OSError"
              THEN /\ pc' = "t_oserror"
                   /\ UNCHANGED <<top, ret, closeLog>>
              ELSE Finish(top, force, "None", k.val)
    /\ UNCHANGED <<phase, initialised, child_fd, closed, beh, fd_open, force,
                   nOsClose, calls>>
    /\ UNCHANGED outsideSession

\* The child ends by itself.
ChildExit ==
    /\ child.st = "running"
    /\ child' = [child EXCEPT !.st = "zombie", !.how = "exited"]
    /\ UNCHANGED <<svars, beh, fd_open, fvars, hvars>>
    /\ UNCHANGED outsideSession

\* A delivered fatal signal ends the child.
ChildDie ==
    /\ child.st = "dying"
    /\ child' = [child EXCEPT !.st = "zombie", !.how = "signaled"]
    /\ UNCHANGED <<svars, beh, fd_open, fvars, hvars>>
    /\ UNCHANGED outsideSession

\* Someone stops the child (job control).
ChildStop ==
    /\ child.st = "running"
    /\ child' = [child EXCEPT !.st = "stopped"]
    /\ UNCHANGED <<svars, beh, fd_open, fvars, hvars>>
    /\ UNCHANGED outsideSession

\* Someone else waits for the child (or SIGCHLD is ignored): the zombie is
\* gone before this program waits for it.
ChildStolen ==
    /\ child.st = "zombie"
    /\ child' = [child EXCEPT !.st = "stolen"]
    /\ UNCHANGED <<svars, beh, fd_open, fvars, hvars>>
    /\ UNCHANGED outsideSession

\* No signal yet, the terminal at its first geometry.
SignalsOff ==
    /\ sigLog = <<>>
    /\ waited = "None"
    /\ termWin = [rows |-> 24, cols |-> 80]
    /\ ptyWin = "None"
    /\ winLog = <<>>
    /\ nWinch = 0
    /\ ptyIn = 0
    /\ child_io = "idle"

\* The geometry ioctls work.
GeometryWorks == geomOK = [query |-> TRUE, write |-> TRUE]

\* What -r can be: an encoding Python knows, one it does not, or not given.
RemoteArgs == {"known", "unknown", "missing"}

\* What -l can be: known, unknown, or not given, and then the locale names
\* an encoding ("guessed") or none ("unguessable").
LocalArgs == {"known", "unknown", "guessed", "unguessable"}

Configs == [remote : RemoteArgs, local : LocalArgs,
            stdin_tty : BOOLEAN, stdout_tty : BOOLEAN]

\* Strings of the environment are sequences of pieces; "." is a piece of
\* its own, so that endswith and split('.') see it.
EnvKeys == {<<"LANG">>, <<"LC_", "CTYPE">>, <<"LANG", "UAGE">>}

EnvValues ==
    { <<"en_US">>,
      <<"en_US", ".", "UTF-8">>,
      <<"en_US", ".", "ISO-8859-1">>,
      <<"en_US", ".", "UTF-8", "@euro">>,
      <<"en", ".", "US", ".", "UTF-8">>,
      <<"/bin">> }

\* No environment is looked at.
NoEnv == [k \in EnvKeys |-> <<>>]

LocaleOff ==
    /\ l_pc = "off"
    /\ nolocale = FALSE
    /\ environ = NoEnv
    /\ child_env = NoEnv

\* val.endswith(suffix).
EndsWith(val, suffix) ==
    /\ Len(val) >= Len(suffix)
    /\ SubSeq(val, Len(val) - Len(suffix) + 1, Len(val)) = suffix

\* val.split('.')[0]: what stands before the first ".".
RECURSIVE BeforeDot(_)
BeforeDot(val) ==
    IF val = <<>> \/ Head(val) = "." THEN <<>>
    ELSE <<Head(val)>> \o BeforeDot(Tail(val))

\* What TTYConv.setLocale() makes of one variable.  The options were
\* upper-cased by validateCommandLineArguments, so upper() changes nothing.
setLocaleValue(key, val, local, remote) ==
    IF key = <<"LANG">> \/ (key /= <<>> /\ Head(key) = "LC_")
    THEN IF EndsWith(val, <<".", local>>)
         THEN BeforeDot(val) \o <<".", remote>>
         ELSE val
    ELSE val

\* TTYConv.setLocale(): the environment for os.execvpe.
setLocale(env, o) ==
    [k \in DOMAIN env |-> setLocaleValue(k, env[k], o.local, o.remote)]

\* How the platform reports the end of the PTY's data: Linux fails the read
\* with EIO, others return an empty string.
PtyEofs == {"EIO", "empty"}

\* Both encodings known, both streams terminals.
Configured ==
    cfg = [remote |-> "known", local |-> "known",
           stdin_tty |-> TRUE, stdout_tty |-> TRUE]

RoundOff ==
    /\ SignalsOff
    /\ rt_pc = "off"
    /\ rt_enc = "ASCII"
    /\ rt_text = <<>>
    /\ rt_bytes = <<>>
    /\ rt_back = <<>>

CodecOff ==
    /\ RoundOff
    /\ c_pc = "off"
    /\ c_path = "interact_out"
    /\ c_src = "ASCII"
    /\ c_dst = "ASCII"
    /\ c_in = <<>>
    /\ c_cut = 0
    /\ c_one = NoRelay
    /\ c_two = NoRelay

\* The object after the assignments of __init__, before spawn().
\* No session yet.
NoSession ==
    /\ initialised = FALSE
    /\ terminated = TRUE
    /\ status = "None"
    /\ child_fd = -1
    /\ closed = FALSE
    /\ child = NoChild
    /\ fd_open = FALSE
    /\ top = "idle"
    /\ pc = "-"
    /\ force = FALSE
    /\ ev = <<>>
    /\ ret = NoRet
    /\ closeLog = <<>>
    /\ nOsClose = 0
    /\ calls = 0

SessionInit == phase = "constructed" /\ NoSession

\* The terminal and the streams before the relay starts.
StreamsOff ==
    /\ tty_mode = "cooked"
    /\ ptyOut = <<>>
    /\ stdinBuf = <<>>
    /\ made = [out |-> 0, in |-> 0]
    /\ owed = [out |-> <<>>, in |-> <<>>]
    /\ delivered = [out |-> <<>>, in |-> <<>>]
    /\ nread = [out |-> 0, in |-> 0]
    /\ eofReads = 0
    /\ r_pc = "start"
    /\ ready = {}
    /\ wbuf = <<>>
    /\ outcome = "None"

\* TTYConv2 not in use.
AsyncOff ==
    /\ a_pc = "off"
    /\ done = FALSE
    /\ tasks = {}
    /\ readers = {}
    /\ pty_fd = "unset"
    /\ remote_decoder = <<>>
    /\ io_failed = FALSE

RelayOff == StreamsOff /\ saved_mode = "None" /\ AsyncOff

DefaultOpts == [remote |-> "ISO-8859-1", local |-> "UTF-8"]

TermInit ==
    SessionInit /\ beh \in {b \in Behaviours : b.term = "die"} /\ GeometryWorks /\ Configured /\ pty_eof = "EIO" /\ py \in Pythons /\ bounded = FALSE /\ LocaleOff /\ CodecOff /\ RelayOff /\ opts = DefaultOpts

TermNext ==
    \/ Spawn \/ CallTerminate \/ CallClose \/ CallDel
    \/ CloseEnter \/ CloseAlive \/ TermCheck \/ TermSend
    \/ ChildExit \/ ChildDie \/ ChildStop \/ ChildStolen

SpecTerm == TermInit /\ [][TermNext]_vars

(***************************************************************************)
(* TTYConv.interact(): the relay between the terminal and the child's PTY. *)
(***************************************************************************)
\* Bytes either side sends, and how many bytes a side sends in a run.
RelayBytes == {97, 195, 169}
MaxBytes == 2

\* The encoding pairs the runs are started with.
RelayOptions == {[remote |-> "ISO-8859-1", local |-> "UTF-8"],
                 [remote |-> "UTF-8", local |-> "ASCII"]}

\* errno of a failed os.read or os.write, as far as interact() tells them
\* apart.
Errnos == {"EIO", "EAGAIN", "other"}

\* The child's process is over, so the slave side of the PTY is closed.
SlaveClosed == child.st \in {"zombie", "reaped", "stolen"}

\* What select.select([child_fd, STDIN_FILENO], [], []) finds readable.
Readable ==
    (IF ptyOut /= <<>> \/ SlaveClosed THEN {"child"} ELSE {})
    \cup (IF stdinBuf /= <<>> THEN {"stdin"} ELSE {})

\* What os.write(fd, data) can do: accept the first n bytes, n >= 1 for
\* data that is not empty, or fail.
WriteCounts(data) == IF data = <<>> THEN {0} ELSE 1..Len(data)

\* interact() is left: the finally clause restores the terminal.
Leave(how) ==
    /\ tty_mode' = saved_mode
    /\ r_pc' = "left"
    /\ outcome' = how
    /\ ready' = {}
    /\ wbuf' = <<>>
    /\ UNCHANGED saved_mode

\* The except clause of interact(): EIO is ignored, anything else is fatal.
Caught(errno) ==
    Leave(IF errno = "EIO" THEN "returned"
          ELSE IF errno = "EAGAIN" THEN "SystemExit:EAGAIN"
          ELSE "SystemExit")

\* The next place after one descriptor of `ready` was served.
Served(fd) ==
    /\ ready' = ready \ {fd}
    /\ r_pc' = IF ready \ {fd} = {} THEN "loop" ELSE "dispatch"

\* interact() up to its loop: tcgetattr, setraw.
InteractStart ==
    /\ phase = "spawned" /\ r_pc = "start"
    /\ saved_mode' = tty_mode
    /\ tty_mode' = "raw"
    /\ r_pc' = "loop"
    /\ UNCHANGED <<dvars, ready, wbuf, outcome, svars, kvars>>
    /\ UNCHANGED outsideRelay

\* while self.isalive():
InteractLoop ==
    /\ r_pc = "loop"
    /\ LET a == isalive(terminated, status, child)
       IN  /\ Checked(a)
           /\ IF a.val = "True"
              THEN /\ r_pc' = "select"
                   /\ UNCHANGED <<tvars, ready, wbuf, outcome>>
              ELSE Leave(IF a.val = "False" THEN "returned" ELSE a.val)
    /\ UNCHANGED <<dvars, phase, initialised, child_fd, closed, beh, fd_open>>
    /\ UNCHANGED outsideRelay

\* self.select(...) returns once a descriptor is readable.
InteractSelect ==
    /\ r_pc = "select"
    /\ Readable /= {}
    /\ ready' = Readable
    /\ r_pc' = "dispatch"
    /\ UNCHANGED <<tvars, dvars, wbuf, outcome, svars, kvars>>
    /\ UNCHANGED outsideRelay

\* A read of the PTY master has returned nothing.
EmptyRead == eofReads' = IF eofReads = 0 THEN 1 ELSE 2

\* if self.child_fd in r: read, remoteToLocal, one os.write whose count
\* is not looked at.  A read of a PTY whose slave is closed and drained
\* fails with EIO or returns '' (pty_eof).
InteractOut ==
    /\ r_pc = "dispatch" /\ "child" \in ready
    /\ IF ptyOut /= <<>>
       THEN LET data == remoteToLocal(ptyOut, opts.remote, opts.local)
            IN  /\ ptyOut' = <<>>
                /\ nread' = [nread EXCEPT !.out = @ + 1]
                /\ owed' = [owed EXCEPT !.out = @ \o data]
                /\ \/ \E n \in WriteCounts(data) :
                        /\ delivered' = [delivered EXCEPT !.out = @ \o Take(data, n)]
                        /\ Served("child")
                        /\ UNCHANGED <<tvars, wbuf, outcome>>
                   \/ \E e \in Errnos :
                        /\ Caught(e)
                        /\ UNCHANGED delivered
                /\ UNCHANGED eofReads
       ELSE /\ UNCHANGED <<ptyOut, nread, owed, delivered>>
            /\ IF pty_eof = "EIO"
               THEN Caught("EIO") /\ UNCHANGED eofReads
               ELSE /\ Served("child")
                    /\ EmptyRead
                    /\ UNCHANGED <<tvars, wbuf, outcome>>
    /\ UNCHANGED <<opts, stdinBuf, made, svars, kvars>>
    /\ UNCHANGED outsideRelay

\* if self.STDIN_FILENO in r: read, localToRemote, then self.write().
InteractIn ==
    /\ r_pc = "dispatch" /\ "child" \notin ready /\ "stdin" \in ready
    /\ \/ LET data == localToRemote(stdinBuf, opts.local, opts.remote)
          IN  /\ stdinBuf' = <<>>
              /\ nread' = [nread EXCEPT !.in = @ + 1]
              /\ owed' = [owed EXCEPT !.in = @ \o data]
              /\ wbuf' = data
              /\ ready' = {}
              /\ r_pc' = "write"
              /\ UNCHANGED <<tvars, outcome>>
       \/ \E e \in Errnos :
              /\ Caught(e)
              /\ UNCHANGED <<stdinBuf, nread, owed>>
    /\ UNCHANGED <<opts, ptyOut, made, delivered, eofReads, svars, kvars>>
    /\ UNCHANGED outsideRelay

\* The bytes a PTY queue holds when it can fill up.
PtyQueue == 1

\* How many of n bytes the PTY master takes now; with none, os.write blocks.
Room(n) == IF bounded THEN PtyQueue - ptyIn ELSE n

\* One turn of the loop of TTYConv.write(): while data != '' and
\* self.isalive(): n = os.write(fd, data); data = data[n:].  child_fd is a
\* blocking descriptor: os.write waits until the PTY takes a byte.
InteractWrite ==
    /\ r_pc = "write"
    /\ IF wbuf = <<>>
       THEN /\ r_pc' = "loop"
            /\ UNCHANGED <<tvars, dvars, ready, wbuf, outcome, svars, kvars, ptyIn>>
       ELSE LET a == isalive(terminated, status, child)
            IN  /\ Checked(a)
                /\ IF a.val = "True"
                   THEN \E n \in WriteCounts(wbuf) \cap (1..Room(Len(wbuf))) :
                          /\ delivered' = [delivered EXCEPT !.in = @ \o Take(wbuf, n)]
                          /\ wbuf' = Drop(wbuf, n)
                          /\ ptyIn' = IF bounded THEN ptyIn + n ELSE ptyIn
                          /\ UNCHANGED <<tvars, r_pc, ready, outcome>>
                   ELSE IF a.val = "False"
                   THEN /\ r_pc' = "loop"
                        /\ UNCHANGED <<tvars, delivered, ready, wbuf, outcome, ptyIn>>
                   ELSE /\ Leave(a.val)
                        /\ UNCHANGED <<delivered, ptyIn>>
                /\ UNCHANGED <<opts, ptyOut, stdinBuf, made, owed, nread, eofReads>>
                /\ UNCHANGED <<phase, initialised, child_fd, closed, beh, fd_open>>
    /\ UNCHANGED <<bounded, child_io>>
    /\ UNCHANGED outsideFlow

\* The child writes a byte to its terminal.
ChildWrites ==
    /\ child.st = "running" /\ made.out < MaxBytes
    /\ bounded => Len(ptyOut) < PtyQueue
    /\ \E b \in RelayBytes : ptyOut' = Append(ptyOut, b)
    /\ made' = [made EXCEPT !.out = @ + 1]
    /\ child_io' = "idle"
    /\ UNCHANGED <<tvars, opts, stdinBuf, owed, delivered, nread, eofReads, ivars, svars, kvars>>
    /\ UNCHANGED <<bounded, ptyIn>>
    /\ UNCHANGED outsideFlow

\* The child starts a write its terminal has no room for: it is blocked in
\* the write until the relay reads.
ChildBlocks ==
    /\ child.st = "running" /\ made.out < MaxBytes
    /\ bounded /\ Len(ptyOut) >= PtyQueue /\ child_io = "idle"
    /\ child_io' = "writing"
    /\ UNCHANGED <<tvars, dvars, ivars, svars, kvars, bounded, ptyIn>>
    /\ UNCHANGED outsideFlow

\* The child reads a byte of its input, unless it is blocked in a write.
ChildReads ==
    /\ child.st = "running" /\ child_io = "idle" /\ ptyIn > 0
    /\ ptyIn' = ptyIn - 1
    /\ UNCHANGED <<tvars, dvars, ivars, svars, kvars, bounded, child_io>>
    /\ UNCHANGED outsideFlow

\* The user types a byte.
UserTypes ==
    /\ r_pc \notin {"start", "left", "killed"} \/ a_pc = "running"
    /\ made.in < MaxBytes
    /\ \E b \in RelayBytes : stdinBuf' = Append(stdinBuf, b)
    /\ made' = [made EXCEPT !.in = @ + 1]
    /\ UNCHANGED <<tvars, opts, ptyOut, owed, delivered, nread, eofReads, ivars, svars, kvars>>
    /\ UNCHANGED outsideRelay

\* The signals the claims call termination-class, those initSignals()
\* installs signal_handler for, and how many signals reach a run.
TerminationSignals == {"HUP", "TERM", "INT", "PIPE", "CONT"}
HandledSignals == {"TERM", "INT", "PIPE", "CONT"}
MaxSignals == 2

\* The child's process exists (it has not ended).
ChildAlive == child.st \in {"running", "stopped", "dying"}

\* A signal reaches the program while interact() runs.  signal_handler:
\* if self.isalive(): self.kill(sig); an exception of the handler is raised
\* in interact().  A signal without a handler has its default disposition:
\* SIGHUP ends the process where it stands.
SignalArrives ==
    /\ phase = "spawned" /\ r_pc \notin {"start", "left", "killed"}
    /\ Len(sigLog) < MaxSignals
    /\ \E sig \in TerminationSignals :
          IF sig \in HandledSignals
          THEN LET k == kill(sig, terminated, status, child, beh)
               IN  /\ Checked(k)
                   /\ sigLog' = Append(sigLog,
                          [sig |-> sig, alive |-> ChildAlive, handled |-> TRUE,
                           forwarded |-> (k.val = "None" /\ Len(k.log) = 2)])
                   /\ IF k.val = "None"
                      THEN UNCHANGED <<tvars, ivars>>
                      ELSE IF k.val = "OSError" THEN Caught("other")
                      ELSE Leave(k.val)
          ELSE /\ sigLog' = Append(sigLog,
                      [sig |-> sig, alive |-> ChildAlive, handled |-> FALSE,
                       forwarded |-> FALSE])
               /\ r_pc' = "killed"
               /\ outcome' = "killed by SIGHUP"
               /\ UNCHANGED <<tvars, ready, wbuf, terminated, status, child>>
    /\ UNCHANGED <<waited, dvars, phase, initialised, child_fd, closed, beh, fd_open>>
    /\ UNCHANGED <<cvars, fvars, hvars, avars, xvars, gvars, ovars, qvars, evars>>

\* How many window changes a run sees.
MaxWinch == 2

\* The terminal window changes while interact() runs and SIGWINCH reaches
\* the program.  sigwinch_handler: getwinsize(stdout), then
\* setwinsize(self.child_fd, r, c); an exception of either is raised in
\* interact() and ends the program.
Winch ==
    /\ phase = "spawned" /\ r_pc \notin {"start", "left", "killed"}
    /\ nWinch < MaxWinch
    /\ nWinch' = nWinch + 1
    /\ \E g \in Geometries \ {termWin} :
          /\ termWin' = g
          /\ IF geomOK.query /\ geomOK.write
             THEN /\ WinWrite(getwinsize(g))
                  /\ UNCHANGED <<tvars, ivars>>
             ELSE /\ Leave("GeometryError")
                  /\ UNCHANGED <<ptyWin, winLog>>
    /\ UNCHANGED <<geomOK, dvars, svars, kvars>>
    /\ UNCHANGED <<cvars, fvars, hvars, avars, xvars, nvars, ovars, qvars, evars>>

RelayInit ==
    /\ SessionInit
    /\ GeometryWorks /\ Configured
    /\ pty_eof \in PtyEofs /\ py = 2 /\ bounded = FALSE /\ LocaleOff
    /\ beh = Mortal
    /\ CodecOff
    /\ RelayOff
    /\ opts \in RelayOptions

RelayNext ==
    \/ Spawn \/ InteractStart \/ InteractLoop \/ InteractSelect
    \/ InteractOut \/ InteractIn \/ InteractWrite
    \/ ChildWrites \/ UserTypes \/ ChildExit \/ ChildStolen

SpecRelay == RelayInit /\ [][RelayNext]_vars

(***************************************************************************)
(* The child between fork and exec: the environment it executes the        *)
(* command with.                                                           *)
(***************************************************************************)
LocaleInit ==
    /\ SessionInit
    /\ GeometryWorks /\ Configured
    /\ pty_eof = "EIO" /\ py = 2 /\ bounded = FALSE
    /\ beh = Mortal
    /\ CodecOff
    /\ RelayOff
    /\ opts \in RelayOptions
    /\ l_pc = "fork"
    /\ nolocale \in BOOLEAN
    /\ environ \in [EnvKeys -> EnvValues]
    /\ child_env = NoEnv

\* os.execvp(args[0], args) hands os.environ on; os.execvpe(args[0], args,
\* self.setLocale()) hands on what setLocale() returns.
ChildExec ==
    /\ l_pc = "fork"
    /\ l_pc' = "exec"
    /\ child_env' = IF nolocale THEN environ ELSE setLocale(environ, opts)
    /\ UNCHANGED <<nolocale, environ>>
    /\ UNCHANGED <<cvars, pvars, rvars, avars, xvars, nvars, gvars, ovars, qvars>>

LocaleNext == ChildExec

SpecLocale == LocaleInit /\ [][LocaleNext]_vars

(***************************************************************************)
(* The relay with PTY queues that fill up.                                 *)
(***************************************************************************)
FlowInit ==
    /\ SessionInit
    /\ GeometryWorks /\ Configured
    /\ pty_eof \in PtyEofs
    /\ py = 2 /\ bounded = TRUE /\ LocaleOff
    /\ beh = Mortal
    /\ CodecOff
    /\ RelayOff
    /\ opts = DefaultOpts

FlowNext ==
    \/ Spawn \/ InteractStart \/ InteractLoop \/ InteractSelect
    \/ InteractOut \/ InteractIn \/ InteractWrite
    \/ ChildWrites \/ ChildBlocks \/ ChildReads \/ UserTypes \/ ChildExit

SpecFlow == FlowInit /\ [][FlowNext]_vars

(***************************************************************************)
(* TTYConv.interact() and the signal handlers, in a session without        *)
(* traffic: neither side sends a byte.                                     *)
(***************************************************************************)
(* Start-up: __init__ from validateCommandLineArguments() to the first     *)
(* step of interact(), for every command line and every kind of standard   *)
(* stream.                                                                  *)
(***************************************************************************)
\* self.fail(): the message, then sys.exit(1).
Fail ==
    /\ phase' = "exited"
    /\ outcome' = "SystemExit"

\* TTYConv.validateCommandLineArguments.  The remote encoding is looked up;
\* a local encoding that was not given is guessed from the locale; one that
\* was given is not looked up: the remote one is looked up again.
validateCommandLineArguments ==
    /\ phase = "parsed"
    /\ IF cfg.remote \in {"missing", "unknown"} THEN Fail
       ELSE IF cfg.local = "unguessable" THEN Fail
       ELSE IF cfg.local = "guessed" THEN phase' = "constructed" /\ UNCHANGED outcome
       ELSE IF cfg.remote = "unknown" THEN Fail
       ELSE phase' = "constructed" /\ UNCHANGED outcome
    /\ UNCHANGED <<initialised, terminated, status, child_fd, closed, kvars, fvars, hvars>>
    /\ UNCHANGED <<tvars, dvars, r_pc, ready, wbuf>>
    /\ UNCHANGED <<cvars, avars, xvars, nvars, gvars, ovars, qvars, evars>>

\* The geometry query of spawn() is made on standard input and fails when
\* that is not a terminal.
ConfigInit ==
    /\ phase = "parsed"
    /\ NoSession
    /\ cfg \in Configs
    /\ pty_eof = "EIO" /\ py = 2 /\ bounded = FALSE /\ LocaleOff
    /\ geomOK = [query |-> cfg.stdin_tty, write |-> TRUE]
    /\ beh = Mortal
    /\ CodecOff
    /\ RelayOff
    /\ opts = DefaultOpts

ConfigNext ==
    \/ validateCommandLineArguments \/ Spawn \/ InteractStart
    \/ ChildExit \/ ChildStop \/ ChildStolen

SpecConfig == ConfigInit /\ [][ConfigNext]_vars

(***************************************************************************)
(* The quiet session: signals and window changes.                          *)
(***************************************************************************)
\* The child dies of SIGTERM and SIGPIPE or ignores them.
SignalInit ==
    /\ SessionInit
    /\ geomOK \in [query : BOOLEAN, write : BOOLEAN]
    /\ Configured
    /\ pty_eof \in PtyEofs /\ py = 2 /\ bounded = FALSE /\ LocaleOff
    /\ beh \in {b \in Behaviours : b.hup = "die" /\ b.int = "die" /\ b.kill = "die" /\ b.perm}
    /\ CodecOff
    /\ RelayOff
    /\ opts = DefaultOpts

\* The steps of the program itself.
SignalProgram ==
    \/ Spawn \/ InteractStart \/ InteractLoop \/ InteractSelect \/ InteractOut

SignalNext ==
    \/ SignalProgram
    \/ SignalArrives \/ Winch \/ ChildExit \/ ChildDie \/ ChildStolen

SpecSignal == SignalInit /\ [][SignalNext]_vars

\* The program takes its steps whenever it can and a child that got a
\* fatal signal ends; nothing else is asked of the child or of whoever sends
\* the signals.
SpecSignalFair == SpecSignal /\ WF_vars(SignalProgram) /\ WF_vars(ChildDie)

(***************************************************************************)
(* isalive() of the main flow in two steps, with signal_handler running    *)
(* between them: Python runs a handler between two bytecodes of the main   *)
(* thread, so also between `pid, status = os.waitpid(...)` and             *)
(* `self.terminated = True`.                                               *)
(***************************************************************************)
\* `while self.isalive():` up to the return of os.waitpid: the test of
\* self.terminated and the (at most two) os.waitpid calls.
IsaliveWait ==
    /\ r_pc = "loop"
    /\ IF terminated
       THEN Leave("returned") /\ UNCHANGED <<child, waited>>
       ELSE LET w1 == WaitPid(child)
                w  == IF w1.err = "none" /\ w1.pid = 0 THEN WaitPid(w1.child) ELSE w1
            IN  IF w.err = "ECHILD"
                THEN Leave(NoChildRaised) /\ UNCHANGED <<child, waited>>
                ELSE IF w.pid = 0
                THEN /\ r_pc' = "select"
                     /\ UNCHANGED <<child, waited, tvars, ready, wbuf, outcome>>
                ELSE /\ child' = w.child
                     /\ waited' = w.status
                     /\ r_pc' = "waited"
                     /\ UNCHANGED <<tvars, ready, wbuf, outcome>>
    /\ UNCHANGED <<sigLog, dvars, svars, beh, fd_open>>
    /\ UNCHANGED <<cvars, fvars, hvars, avars, xvars, gvars, ovars, qvars, evars>>

\* isalive() after os.waitpid returned the child's status: self.status =
\* status; self.terminated = True; return False, which ends the loop.
IsaliveUpdate ==
    /\ r_pc = "waited"
    /\ status' = waited
    /\ terminated' = TRUE
    /\ waited' = "None"
    /\ Leave("returned")
    /\ UNCHANGED <<sigLog, dvars, phase, initialised, child_fd, closed, kvars>>
    /\ UNCHANGED <<cvars, fvars, hvars, avars, xvars, gvars, ovars, qvars, evars>>

RaceInit == SignalInit /\ geomOK.query /\ geomOK.write /\ pty_eof = "EIO"

RaceNext ==
    \/ Spawn \/ InteractStart \/ IsaliveWait \/ IsaliveUpdate
    \/ InteractSelect \/ InteractOut
    \/ SignalArrives \/ ChildExit \/ ChildDie

SpecRace == RaceInit /\ [][RaceNext]_vars

(***************************************************************************)
(* SIGWINCH outside interact(): sigwinch_handler is installed by           *)
(* initSignals(), before spawn(), and stays installed while close() runs.  *)
(***************************************************************************)
\* self.child_fd names an open PTY master.
MasterValid == child_fd = PtyFd /\ fd_open

\* The terminal window changes while interact() does not run.
\* sigwinch_handler has no test of self.child_fd: getwinsize(stdout), then
\* setwinsize(self.child_fd, r, c), whose ioctl raises EBADF on -1 and on a
\* closed descriptor.  The exception is raised where the main flow stands:
\* it leaves __init__ before spawn(), or the method that is running.
WinchOutside ==
    /\ phase \in {"constructed", "spawned"} /\ r_pc = "start" /\ top # "gone"
    /\ nWinch < MaxWinch
    /\ nWinch' = nWinch + 1
    /\ \E g \in Geometries \ {termWin} :
          /\ termWin' = g
          /\ IF MasterValid
             THEN /\ WinWrite(getwinsize(g))
                  /\ UNCHANGED <<phase, outcome, fvars, ret, closeLog>>
             ELSE /\ outcome' = "IOError:EBADF"
                  /\ phase' = IF phase = "constructed" THEN "failed" ELSE phase
                  /\ IF top = "idle"
                     THEN UNCHANGED <<fvars, ret, closeLog>>
                     ELSE Finish(top, force, "None", "IOError:EBADF") /\ UNCHANGED force
                  /\ UNCHANGED <<ptyWin, winLog>>
    /\ UNCHANGED <<geomOK, initialised, terminated, status, child_fd, closed, kvars,
                   ev, nOsClose, calls>>
    /\ UNCHANGED <<tvars, dvars, r_pc, ready, wbuf>>
    /\ UNCHANGED <<cvars, avars, xvars, nvars, ovars, qvars, evars>>

WinchInit == TermInit /\ py = 2

WinchNext ==
    \/ Spawn \/ CallClose \/ CallDel
    \/ CloseEnter \/ CloseAlive \/ TermCheck \/ TermSend
    \/ ChildExit \/ ChildDie \/ WinchOutside

SpecWinch == WinchInit /\ [][WinchNext]_vars

(***************************************************************************)
(* TTYConv2: the event loop, its tasks and its reader callbacks.           *)
(***************************************************************************)
\* TTYConv2() has run: the command line is parsed, both standard descriptors
\* are terminals, old_termios holds the terminal's mode.
AsyncInit ==
    /\ SessionInit
    /\ GeometryWorks /\ Configured
    /\ pty_eof \in PtyEofs /\ py = 2 /\ bounded = FALSE /\ LocaleOff
    /\ beh = Mortal
    /\ CodecOff
    /\ StreamsOff
    /\ saved_mode = "cooked"
    /\ opts \in RelayOptions
    /\ a_pc = "init"
    /\ done = FALSE
    /\ tasks = {}
    /\ readers = {}
    /\ pty_fd = "unset"
    /\ remote_decoder = <<>>
    /\ io_failed = FALSE

\* The end of run(): run_forever() is over, the finally clause closes the
\* loop and calls sys.exit(self._exitcode); nothing ever sets _exitcode.
ExitRun ==
    /\ a_pc' = "exited"
    /\ outcome' = "SystemExit(None)"
    /\ tasks' = {}
    /\ readers' = {}

\* create_task(self.shutdown(...)).
CreateShutdown == tasks' = tasks \cup {"shutdown"}

\* run() up to loop.run_forever().
Run ==
    /\ a_pc = "init"
    /\ a_pc' = "running"
    /\ readers' = {"stdin"}
    /\ tasks' = {"session"}
    /\ UNCHANGED <<done, pty_fd, remote_decoder, io_failed, tvars, dvars, outcome, child>>
    /\ UNCHANGED outsideAsync

\* The session() task, the first the loop runs: os.forkpty(), tty.setraw(0),
\* add_reader.  When forkpty raises, the task's done callback calls
\* sys.exit(1), which ends run_forever().
Session ==
    /\ a_pc = "running" /\ "session" \in tasks
    /\ \/ /\ child' = RunningChild
          /\ pty_fd' = PtyFd
          /\ tty_mode' = "raw"
          /\ readers' = readers \cup {"pty"}
          /\ tasks' = tasks \ {"session"}
          /\ UNCHANGED <<a_pc, outcome>>
       \/ /\ ExitRun
          /\ UNCHANGED <<child, pty_fd, tty_mode>>
    /\ UNCHANGED <<done, remote_decoder, io_failed, saved_mode, dvars>>
    /\ UNCHANGED outsideAsync

\* SIGHUP, SIGTERM or SIGINT reaches the program: the handler creates a
\* shutdown task (one that waits already stands for any number of them).
SignalShutdown ==
    /\ a_pc = "running"
    /\ "shutdown" \notin tasks
    /\ CreateShutdown
    /\ UNCHANGED <<a_pc, done, readers, pty_fd, remote_decoder, io_failed, tvars, dvars,
                   outcome, child>>
    /\ UNCHANGED outsideAsync

\* The shutdown() task: done, every other task cancelled, _shutdown()
\* scheduled.
Shutdown ==
    /\ a_pc = "running" /\ "shutdown" \in tasks /\ "session" \notin tasks
    /\ done' = TRUE
    /\ tasks' = {"_shutdown"}
    /\ UNCHANGED <<a_pc, readers, pty_fd, remote_decoder, io_failed, tvars, dvars, outcome,
                   child>>
    /\ UNCHANGED outsideAsync

\* The _shutdown() task stops the loop; run() ends.
StopLoop ==
    /\ a_pc = "running" /\ "_shutdown" \in tasks
    /\ ExitRun
    /\ UNCHANGED <<done, pty_fd, remote_decoder, io_failed, tvars, dvars, child>>
    /\ UNCHANGED outsideAsync

\* The reader callback of the PTY master.  The loop runs the session task
\* before it polls, so no callback precedes it.  A read of a PTY whose slave
\* is closed and drained fails with EIO (errno 5) or returns b'' (pty_eof).
HandleOutputFromSystem ==
    /\ a_pc = "running" /\ "pty" \in readers /\ "session" \notin tasks
    /\ ptyOut /= <<>> \/ SlaveClosed
    /\ IF done
       THEN UNCHANGED <<tvars, dvars, tasks, remote_decoder, io_failed>>
       ELSE IF ptyOut /= <<>>
       THEN LET t == handle_output_transcode(ptyOut, remote_decoder,
                                             opts.remote, opts.local)
            IN  /\ ptyOut' = <<>>
                /\ nread' = [nread EXCEPT !.out = @ + 1]
                /\ owed' = [owed EXCEPT !.out = @ \o t.out]
                /\ remote_decoder' = t.carry
                /\ IF t.text = <<>>
                   THEN UNCHANGED delivered
                   ELSE \/ \E n \in WriteCounts(t.out) :
                             delivered' = [delivered EXCEPT !.out = @ \o Take(t.out, n)]
                        \/ UNCHANGED delivered
                /\ UNCHANGED <<tvars, opts, stdinBuf, made, tasks, io_failed, eofReads>>
       ELSE /\ IF pty_eof = "EIO"
               THEN /\ tty_mode' = saved_mode
                    /\ CreateShutdown
                    /\ io_failed' = TRUE
                    /\ UNCHANGED eofReads
               ELSE /\ EmptyRead
                    /\ UNCHANGED <<tty_mode, tasks, io_failed>>
            /\ UNCHANGED <<saved_mode, opts, ptyOut, stdinBuf, made, owed, delivered,
                           nread, remote_decoder>>
    /\ UNCHANGED <<a_pc, done, readers, pty_fd, outcome, child>>
    /\ UNCHANGED outsideAsync

\* The reader callback of standard input.  os.write to a PTY whose slave is
\* closed fails; an exception that leaves a callback is reported by the
\* loop's exception handler and the loop goes on.  After a failed read with
\* an errno other than 5 the callback fails on its unbound `data`.
HandleFdRead ==
    /\ a_pc = "running" /\ "stdin" \in readers /\ "session" \notin tasks
    /\ stdinBuf /= <<>>
    /\ IF done
       THEN UNCHANGED <<tvars, dvars, tasks, io_failed>>
       ELSE \/ LET t == handle_fd_transcode(stdinBuf, <<>>, opts.local, opts.remote)
               IN  /\ stdinBuf' = <<>>
                   /\ nread' = [nread EXCEPT !.in = @ + 1]
                   /\ owed' = [owed EXCEPT !.in = @ \o t.out]
                   /\ io_failed' = (io_failed \/ (t.out /= <<>> /\ SlaveClosed))
                   /\ IF t.out = <<>> \/ SlaveClosed
                      THEN UNCHANGED delivered
                      ELSE \E n \in WriteCounts(t.out) :
                             delivered' = [delivered EXCEPT !.in = @ \o Take(t.out, n)]
                   /\ UNCHANGED <<tvars, opts, ptyOut, made, tasks, eofReads>>
            \/ \E e \in Errnos :
                   /\ IF e = "EIO"
                      THEN tty_mode' = saved_mode /\ CreateShutdown
                      ELSE UNCHANGED <<tty_mode, tasks>>
                   /\ io_failed' = TRUE
                   /\ UNCHANGED <<saved_mode, dvars>>
    /\ UNCHANGED <<a_pc, done, readers, pty_fd, remote_decoder, outcome, child>>
    /\ UNCHANGED outsideAsync

AsyncNext ==
    \/ Run \/ Session \/ SignalShutdown \/ Shutdown \/ StopLoop
    \/ HandleOutputFromSystem \/ HandleFdRead
    \/ ChildWrites \/ UserTypes \/ ChildExit

SpecAsync == AsyncInit /\ [][AsyncNext]_vars

\* The event loop runs every task and callback that is ready.
AsyncProgram ==
    \/ Run \/ Session \/ Shutdown \/ StopLoop
    \/ HandleOutputFromSystem \/ HandleFdRead

SpecAsyncFair == SpecAsync /\ WF_vars(AsyncProgram)

(***************************************************************************)
(* The transcoder on its own.                                              *)
(***************************************************************************)
\* The four places a chunk is transcoded: the two directions of
\* TTYConv.interact and the two reader callbacks of TTYConv2.
Paths == {"interact_out", "interact_in", "asyncio_out", "asyncio_in"}

\* What a handler makes of one chunk, given the decoder state the previous
\* chunk left: the text it decoded, the bytes it writes, the new decoder
\* state.
TranscodeChunk(path, data, carry, src, dst) ==
    IF path = "interact_out"
    THEN [text  |-> lenientDecode(data, src),
          carry |-> carry,
          out   |-> remoteToLocal(data, src, dst)]
    ELSE IF path = "interact_in"
    THEN [text  |-> lenientDecode(data, src),
          carry |-> carry,
          out   |-> localToRemote(data, src, dst)]
    ELSE IF path = "asyncio_out"
    THEN handle_output_transcode(data, carry, src, dst)
    ELSE handle_fd_transcode(data, carry, src, dst)

\* A relay's record after one more chunk.
AfterChunk(path, r, data, src, dst) ==
    LET t == TranscodeChunk(path, data, r.carry, src, dst)
    IN  [text |-> r.text \o t.text, out |-> r.out \o t.out, carry |-> t.carry]

CodecInputs == SeqsUpTo(ByteAlphabet, MaxLen) \cup {Cafe}

CodecInit ==
    /\ c_pc = "start"
    /\ c_path \in Paths
    /\ c_src \in Encodings
    /\ c_dst \in Encodings
    /\ c_in \in CodecInputs
    /\ c_cut = 0
    /\ c_one = NoRelay
    /\ c_two = NoRelay
    /\ RoundOff
    /\ GeometryWorks /\ Configured /\ pty_eof = "EIO" /\ py = 2 /\ bounded = FALSE /\ LocaleOff
    /\ SessionInit
    /\ beh = Mortal
    /\ RelayOff
    /\ opts = DefaultOpts

\* The source delivers c_in in one read.
RelayWhole ==
    /\ c_pc = "start"
    /\ c_one' = AfterChunk(c_path, NoRelay, c_in, c_src, c_dst)
    /\ c_pc' = "whole"
    /\ UNCHANGED <<c_path, c_src, c_dst, c_in, c_cut, c_two>>
    /\ UNCHANGED outsideCodec

\* The source delivers the first c_cut bytes of c_in in a first read ...
RelayFirst ==
    /\ c_pc = "whole"
    /\ \E cut \in 0..Len(c_in) :
          /\ c_cut' = cut
          /\ c_two' = AfterChunk(c_path, NoRelay, Take(c_in, cut), c_src, c_dst)
    /\ c_pc' = "first"
    /\ UNCHANGED <<c_path, c_src, c_dst, c_in, c_one>>
    /\ UNCHANGED outsideCodec

\* ... and the rest in a second read.
RelaySecond ==
    /\ c_pc = "first"
    /\ c_two' = AfterChunk(c_path, c_two, Drop(c_in, c_cut), c_src, c_dst)
    /\ c_pc' = "done"
    /\ UNCHANGED <<c_path, c_src, c_dst, c_in, c_cut, c_one>>
    /\ UNCHANGED outsideCodec

CodecNext == RelayWhole \/ RelayFirst \/ RelaySecond

SpecCodec == CodecInit /\ [][CodecNext]_vars

(***************************************************************************)
(* A text through lenientEncode and back through lenientDecode.            *)
(***************************************************************************)
\* The characters texts are built from: 'a', U+00E9, U+20AC and U+FFFD.
TextAlphabet == {97, 233, 8364, ReplacementChar}

RoundInit ==
    /\ rt_pc = "start"
    /\ rt_enc \in Encodings
    /\ rt_text \in SeqsUpTo(TextAlphabet, MaxLen)
    /\ rt_bytes = <<>>
    /\ rt_back = <<>>
    /\ SignalsOff
    /\ GeometryWorks /\ Configured /\ pty_eof = "EIO" /\ py = 2 /\ bounded = FALSE /\ LocaleOff
    /\ c_pc = "off" /\ c_path = "interact_out" /\ c_src = "ASCII"
    /\ c_dst = "ASCII" /\ c_in = <<>> /\ c_cut = 0
    /\ c_one = NoRelay /\ c_two = NoRelay
    /\ SessionInit
    /\ beh = Mortal
    /\ RelayOff
    /\ opts = DefaultOpts

RoundEncode ==
    /\ rt_pc = "start"
    /\ rt_bytes' = lenientEncode(rt_text, rt_enc)
    /\ rt_pc' = "encoded"
    /\ UNCHANGED <<rt_enc, rt_text, rt_back>>
    /\ UNCHANGED outsideRound

RoundDecode ==
    /\ rt_pc = "encoded"
    /\ rt_back' = lenientDecode(rt_bytes, rt_enc)
    /\ rt_pc' = "decoded"
    /\ UNCHANGED <<rt_enc, rt_text, rt_bytes>>
    /\ UNCHANGED outsideRound

RoundNext == RoundEncode \/ RoundDecode

SpecRound == RoundInit /\ [][RoundNext]_vars

\* A byte string with no error in an encoding.
Valid(enc, d) == CodecDecode(enc, d, TRUE).nerr = 0

(***************************************************************************)
(* Claims about the relay (C1 checked under SpecAsync, C2 and C3 under     *)
(* SpecRelay).                                                             *)
(***************************************************************************)
\* C1: the program never ends with the terminal in another mode than the
\* one captured before raw mode was entered, whichever way the relay is left
\* (interact() of TTYConv, run() of TTYConv2).
C1_TerminalRestored ==
    (r_pc = "left" \/ a_pc = "exited") => tty_mode = saved_mode

\* The two directions of the relay.
Dirs == {"out", "in"}

\* C2: a partial write is followed by no read of the same direction's source
\* until the destination has accepted the rest: whenever a direction's source
\* is read, every byte that direction owes has been delivered.
C2_BackPressure ==
    [][\A d \in Dirs : nread'[d] > nread[d] => delivered[d] = owed[d]]_vars

\* C3: in each direction the bytes the destination has received are at any
\* moment a prefix of the transcoded chunks read so far, in read order.
C3_OrderedPrefix ==
    \A d \in Dirs : IsPrefix(delivered[d], owed[d])

(***************************************************************************)
(* Claims about terminate(), close() and __del__ (checked under SpecTerm). *)
(***************************************************************************)
EscalationOrder == <<"HUP", "CONT", "INT", "KILL">>

IsSignal(x) == x \in {"HUP", "CONT", "INT", "KILL"}

\* The signals sent, in the order sent.
Sigs(e) == SelectSeq(e, IsSignal)

Last(e) == IF e = <<>> THEN "nothing" ELSE e[Len(e)]

\* terminate(), called by the caller, has returned.
TermReturned == top = "idle" /\ ret.op = "terminate" /\ ret.raised = "None"

\* No signal is sent once a liveness check has reported the child gone.
NothingSentOnceGone ==
    \A i, j \in DOMAIN ev : (i < j /\ ev[i] = "gone") => ~IsSignal(ev[j])

\* Between two signals sent, a liveness check found the child alive.
CheckedBetweenSignals ==
    \A i, j \in DOMAIN ev :
        (i < j /\ IsSignal(ev[i]) /\ IsSignal(ev[j]))
            => \E k \in (i + 1)..(j - 1) : ev[k] = "alive"

\* The child of C4: it ignores hangup and interrupt, honours kill, and may be
\* signalled.
StubbornChild ==
    beh.hup = "ignore" /\ beh.int = "ignore" /\ beh.kill = "die" /\ beh.perm

\* C4: termination escalation order.  terminate(force=True) on a child that
\* ignores hangup and interrupt but honours kill sends hangup, continue,
\* interrupt, kill in that order, checks liveness after each, sends nothing
\* once a check has reported the child gone, and returns True only after the
\* child has been waited for; it gives up (False) only after all four.
C4_EscalationOrder ==
    (StubbornChild /\ force) =>
        /\ IsPrefix(Sigs(ev), EscalationOrder)
        /\ CheckedBetweenSignals
        /\ NothingSentOnceGone
        /\ TermReturned =>
              /\ ~IsSignal(Last(ev))
              /\ ret.val = "True" =>
                    Last(ev) = "gone" /\ terminated /\ child.st = "reaped"
              /\ ret.val = "False" =>
                    Sigs(ev) = EscalationOrder /\ Last(ev) = "alive"

C4_Witness ==
    /\ StubbornChild
    /\ TermReturned
    /\ ret.force
    /\ ret.val = "True"
    /\ Sigs(ev) = EscalationOrder
    /\ child.st = "reaped"

\* C5 (as claimed): for every force and every child, terminate(force) sends
\* the unconditional kill only if force is set, returns True as soon as a
\* liveness check reports the child gone, and returns False only if the kill
\* was sent and the child still was not reaped.  (The failure is looked at
\* for a child the parent may signal.)
C5_FailureOnlyAfterKill ==
    /\ "KILL" \in {ev[i] : i \in DOMAIN ev} => force
    /\ NothingSentOnceGone
    /\ TermReturned =>
          /\ ret.val = "True" <=> Last(ev) = "gone"
          /\ (ret.val = "False" /\ beh.perm) =>
                "KILL" \in {ev[i] : i \in DOMAIN ev} /\ ~terminated

\* C5 (amended): ... and returns False only if its last liveness check still
\* found the child alive: after the kill when force is set, after the
\* interrupt when it is not, or after os.kill itself failed.
C5_FailureOnlyWhileAlive ==
    /\ "KILL" \in {ev[i] : i \in DOMAIN ev} => force
    /\ NothingSentOnceGone
    /\ TermReturned =>
          /\ ret.val = "True" <=> Last(ev) = "gone"
          /\ ret.val = "False" =>
                /\ Last(ev) = "alive"
                /\ ~terminated
                /\ \/ Sigs(ev) = (IF force THEN EscalationOrder
                                  ELSE <<"HUP", "CONT", "INT">>)
                   \/ "EPERM" \in {ev[i] : i \in DOMAIN ev}

C5_Witness ==
    /\ TermReturned
    /\ ~ret.force
    /\ ret.val = "False"
    /\ Sigs(ev) = <<"HUP", "CONT", "INT">>
    /\ child.st \in {"running", "stopped"}

\* C6 (as claimed): close is idempotent.  Over any sequence of close() calls
\* on a spawned session, whatever the first call's outcome, os.close is
\* called on the PTY master at most once and no call after the first raises.
\* (Stated for a child the parent may signal and nobody else waits for.)
C6_IdempotentClose ==
    (beh.perm /\ child.st /= "stolen") =>
        /\ nOsClose <= 1
        /\ \A i \in 2..Len(closeLog) : closeLog[i] = "None"

\* C7 (as claimed): when the child survives the unconditional kill during
\* close(), the failure of close() reaches the caller, whichever way close()
\* was invoked.
C7_CloseFailurePropagates ==
    (/\ top \in {"idle", "gone"}
     /\ ret.raised = "ExceptionPexpect:close"
     /\ "KILL" \in {ev[i] : i \in DOMAIN ev})
        => ret.seen = "ExceptionPexpect:close"

(***************************************************************************)
(* Claims about the transcoder (checked under SpecCodec).                  *)
(***************************************************************************)

\* C8 (as claimed): chunk-boundary invariance in both directions.  A valid
\* byte string of the source encoding relayed as two successive chunks, cut
\* at any offset, gives the same decoded text and the same forwarded bytes as
\* relayed in one chunk.
C8_ChunkBoundaryInvariance ==
    (c_pc = "done" /\ Valid(c_src, c_in))
        => (c_two.text = c_one.text /\ c_two.out = c_one.out)

\* The single invalid byte of C9: b between a valid prefix P and a valid
\* suffix S, b being no character by itself.  A decoder that is told more
\* input may follow (the incremental one) can call b invalid only once it has
\* seen the byte after it.
SingleInvalidByte(enc, P, b, S, awaitsMore) ==
    /\ Valid(enc, P)
    /\ Valid(enc, S)
    /\ ~Valid(enc, <<b>>)
    /\ awaitsMore => S /= <<>>

AllRepresentable(enc, text) ==
    \A i \in 1..Len(text) : Representable(enc, text[i])

C12_RoundTrip ==
    (rt_pc = "decoded" /\ AllRepresentable(rt_enc, rt_text)) => rt_back = rt_text

C12_Witness ==
    /\ rt_pc = "decoded"
    /\ rt_enc = "UTF-8"
    /\ rt_text = <<97, 233, 8364>>
    /\ rt_bytes = <<97, 195, 169, 226, 130, 172>>
    /\ rt_back = rt_text

(***************************************************************************)
(* Claims about signals (checked under SpecSignal).                        *)
(***************************************************************************)
\* C13: a handler is installed for each of hangup, terminate, interrupt,
\* broken-pipe and continue, and the handler forwards the received signal to
\* the child if and only if the child is alive.
C13_SignalsForwarded ==
    \A i \in 1..Len(sigLog) :
        sigLog[i].sig \in TerminationSignals =>
            /\ sigLog[i].handled
            /\ sigLog[i].forwarded <=> sigLog[i].alive

\* SIGTERM or SIGINT has reached the program.
TerminationRequested ==
    \E i \in 1..Len(sigLog) : sigLog[i].sig \in {"TERM", "INT"}

\* interact() is over.
RelayTerminated == r_pc \in {"left", "killed"}

\* C14: a termination signal delivered to the relay while it is active makes
\* the relay loop stop: the relay eventually terminates, even if the child
\* ignores the forwarded signal.
C14_SignalStopsRelay == TerminationRequested ~> RelayTerminated

C16_GeometryFailureNonFatal == outcome # "GeometryError"

\* C17: a liveness check made while the child is stopped ends in the fatal
\* failure path: what it adds to the history is a raise, never "alive" or
\* "gone".
C17_StoppedChildIsFatal ==
    [][(child.st = "stopped" /\ Len(ev') > Len(ev))
          => ev'[Len(ev) + 1] = "raise"]_vars

\* A configuration error: an encoding that is unknown or cannot be found,
\* or a standard stream that is not a terminal.
ConfigError ==
    \/ cfg.remote # "known"
    \/ cfg.local \in {"unknown", "unguessable"}
    \/ ~cfg.stdin_tty
    \/ ~cfg.stdout_tty

\* C18: with a configuration error no child is ever forked.
C18_ConfigErrorBeforeSpawn == ConfigError => child.st = "none"

\* C19: the step in which a read or write of the relay first fails with an
\* error that is neither "would block" nor "interrupted" requests the
\* shutdown, and after the failure nothing more is read, transcoded or
\* forwarded.
C19_IoErrorEndsRelay ==
    [][/\ (~io_failed /\ io_failed') => ("shutdown" \in tasks' \/ done')
       /\ io_failed => (nread' = nread /\ delivered' = delivered)]_vars

\* The relay of ttyconv2.py is active and the child has exited.
ActiveChildExited ==
    /\ a_pc = "running" /\ ~done /\ "session" \notin tasks
    /\ child.st = "zombie"

\* C20: from an active state in which the child has exited, the relay
\* eventually terminates, whatever the user does or does not type.
C20_ChildExitStopsRelay == ActiveChildExited ~> (done \/ a_pc = "exited")

\* C21: when interact() returns because the child is gone (isalive() found
\* it ended; no descriptor reported an error), every chunk read from the PTY
\* has been written whole to the terminal.  Stated for the direction whose
\* destination outlives the child.
C21_NothingDiscardedAtShutdown ==
    (r_pc = "left" /\ outcome = "returned" /\ terminated)
        => delivered.out = owed.out

\* The relay is blocked in os.write toward the child: the PTY takes nothing.
RelayBlockedWriting ==
    /\ r_pc = "write" /\ wbuf /= <<>>
    /\ child.st = "running" /\ Room(Len(wbuf)) = 0

\* The child is blocked writing output the relay has not read.
ChildBlockedWriting ==
    /\ child.st = "running" /\ child_io = "writing"
    /\ Len(ptyOut) >= PtyQueue

\* C22: the relay is never blocked writing to the child while the child is
\* blocked writing output the relay has not read.
C22_NoWriteDeadlock == ~(RelayBlockedWriting /\ ChildBlockedWriting)

\* A locale variable: LANG or LC_*.
IsLocaleKey(key) == key \in {<<"LANG">>, <<"LC_", "CTYPE">>}

\* C23: with locale rewriting enabled, a locale variable whose value ends in
\* "." and the local encoding reaches the child with exactly that encoding
\* replaced by the remote one and the rest of the value kept; every other
\* variable reaches it unchanged.
C23_LocaleSuffixRewritten ==
    (l_pc = "exec" /\ ~nolocale) =>
        \A k \in EnvKeys :
            child_env[k] =
                IF IsLocaleKey(k) /\ EndsWith(environ[k], <<".", opts.local>>)
                THEN SubSeq(environ[k], 1, Len(environ[k]) - 1) \o <<opts.remote>>
                ELSE environ[k]

\* C24: a liveness check that finds the child gone without a trace (the
\* wait fails with ECHILD) raises ExceptionPexpect and leaves the terminated
\* flag and the exit status as they were.
C24_NoChildRaisesPexpect ==
    [][(child.st = "stolen" /\ ~terminated /\ Len(ev') > Len(ev))
          => /\ ret'.raised = "ExceptionPexpect:nochild"
             /\ terminated' = terminated
             /\ status' = status]_vars

\* The decoder state a chunk leaves: the bytes of a character the chunk ends
\* in the middle of.
PendingAfter(enc, chunk) == CodecDecode(enc, chunk, FALSE).rest

\* C25: the decoder state the second chunk of a direction is processed with
\* is the state the first chunk left, not a fresh one.
C25_TranscoderStateKept ==
    c_pc = "first" => c_two.carry = PendingAfter(c_src, Take(c_in, c_cut))

\* C26: a zero-length read of the PTY master is the last read of the PTY
\* master: it is never followed by another one.
C26_EmptyReadIsLast == eofReads <= 1

\* C27: a read or write of the relay that reports "would block" never ends
\* the relay.
C27_WouldBlockRetried == outcome # "SystemExit:EAGAIN"

\* The child's process has not ended.
ChildStillAlive == child.st \in {"running", "stopped", "dying"}

\* C28: in a spawned session the PTY master is never closed while the child
\* is alive, and never open once the child has been reaped and no output
\* remains to be read.
C28_MasterFdValidity ==
    phase = "spawned" =>
        /\ ~fd_open => ~ChildStillAlive
        /\ (child.st = "reaped" /\ ptyOut = <<>>) => ~fd_open

\* C29: the terminal's original mode is captured before the child is forked:
\* whenever there is a child, the mode has been captured.
C29_CaptureBeforeFork == child.st # "none" => saved_mode # "None"

\* The child has been reaped by isalive(): its exit was seen and recorded.
ReapedByIsalive == terminated /\ child.st = "reaped"

\* C30: once isalive() has reaped the child, terminated stays true with the
\* exit status recorded, every later liveness check reports the child gone,
\* and no method waits for or signals the child's process id again.
C30_ReapedStaysReaped ==
    [][ReapedByIsalive =>
          /\ terminated' /\ status' = status /\ status \in {"exited", "signaled"}
          /\ child' = child
          /\ ret'.raised \notin {"ExceptionPexpect:nochild", "TypeError", "SystemExit"}
          /\ Len(ev') > Len(ev) =>
                \A i \in (Len(ev) + 1)..Len(ev') : ev'[i] = "gone"]_vars

\* close() reaped the child and finished; a later terminate() found it gone at
\* its first check.
C30_Witness ==
    /\ ReapedByIsalive /\ closed /\ calls = MaxCalls
    /\ TermReturned /\ ret.val = "True" /\ ev = <<"gone">>

\* C31: a forwarding signal handler interleaved with the main flow's
\* isalive() never raises the "no child process" failure: nobody but this
\* program waits for the child, so no wait is issued for a reaped child.
C31_HandlerNeverFindsNoChild == outcome # "ExceptionPexpect:nochild"

\* C32: the window-change handler never issues its geometry write on an
\* invalid PTY master descriptor: no run ends in the EBADF of that ioctl.
C32_WinchOnValidMaster == outcome # "IOError:EBADF"

\* C33: when close(force) returns normally the session has closed = True,
\* child_fd = -1 and the child is not alive; when the child could not be
\* terminated close() raises, the child is alive and closed stays False.
C33_CloseReturnState ==
    [][(top = "close" /\ top' = "idle") =>
          /\ ret'.raised = "None" =>
                closed' /\ child_fd' = -1 /\ child'.st \notin {"running", "stopped", "dying"}
          /\ ret'.raised = "ExceptionPexpect:close" =>
                ~closed' /\ child'.st \in {"running", "stopped", "dying"}]_vars

\* close(force=False) found the child alive, terminate() ended it, and
\* close() returned normally.
C33_Witness ==
    /\ top = "idle" /\ ret.op = "close" /\ ret.raised = "None" /\ ~ret.force
    /\ closed /\ child_fd = -1 /\ child.st = "reaped"
    /\ \E i \in DOMAIN ev : IsSignal(ev[i])

====
